---- MODULE Spec2Model ----
\* Model of monitoring.js: the periodic health-monitoring agent.
\*
\* JavaScript values are represented as follows.
\*   - a string is a TLA+ string; SubSeq, Len and \o act on its characters;
\*   - an object is a record that has exactly the keys the object has, so a
\*     read of a missing property (undefined) is a key outside DOMAIN;
\*   - null is the record NULL;
\*   - an ISO-8601 timestamp string is the record [iso |-> instant];
\*   - instants and durations of the wall clock are whole seconds, response
\*     times are milliseconds as in the source.
EXTENDS Integers, Sequences, FiniteSets, TLC

\* ---------------------------------------------------------------- bounds
NumServices == 2
MaxCycles == 2

\* ------------------------------------------------------- string helpers
Whitespace == {" ", "\n", "\t", "\r"}

\* String.prototype.indexOf, 1-based; 0 when sub does not occur in s.
IndexOf(s, sub) ==
  LET hits == {i \in 1..(Len(s) - Len(sub) + 1) : SubSeq(s, i, i + Len(sub) - 1) = sub}
  IN IF hits = {} THEN 0 ELSE CHOOSE i \in hits : \A j \in hits : i <= j

includes(s, sub) == IndexOf(s, sub) # 0

startsWith(s, prefix) == Len(s) >= Len(prefix) /\ SubSeq(s, 1, Len(prefix)) = prefix

RECURSIVE split(_, _)
split(s, sep) ==
  LET i == IndexOf(s, sep)
  IN IF i = 0 THEN <<s>>
     ELSE <<SubSeq(s, 1, i - 1)>> \o split(SubSeq(s, i + Len(sep), Len(s)), sep)

RECURSIVE trimStart(_)
trimStart(s) ==
  IF Len(s) > 0 /\ SubSeq(s, 1, 1) \in Whitespace
  THEN trimStart(SubSeq(s, 2, Len(s))) ELSE s

RECURSIVE trimEnd(_)
trimEnd(s) ==
  IF Len(s) > 0 /\ SubSeq(s, Len(s), Len(s)) \in Whitespace
  THEN trimEnd(SubSeq(s, 1, Len(s) - 1)) ELSE s

trim(s) == trimEnd(trimStart(s))

\* Math.ceil(a / b) for b > 0 (\div rounds towards minus infinity).
MathCeilDiv(a, b) == 0 - ((0 - a) \div b)

\* ---------------------------------------------------------- JS values
NULL == [null |-> TRUE]

Iso(instant) == [iso |-> instant]

Has(obj, key) == key \in DOMAIN obj

\* ------------------------------------------------------- configuration
ConfigServices ==
  << [name |-> "Traefik Dashboard",
      url |-> "https://traefik.propertyapp.duckdns.org/dashboard/",
      expectedStatus |-> 200, timeout |-> 5000],
     [name |-> "NASA App",
      url |-> "https://majortomtogroundcontrol.duckdns.org",
      expectedStatus |-> 200, timeout |-> 5000],
     [name |-> "Property App Frontend",
      url |-> "https://propertyapp.duckdns.org",
      expectedStatus |-> 200, timeout |-> 5000],
     [name |-> "Property App API",
      url |-> "https://propertyapp.duckdns.org/api/repair/users",
      expectedStatus |-> 200, timeout |-> 5000] >>

\* config.services, cut to the first NumServices targets.
services == SubSeq(ConfigServices, 1, NumServices)

ConfigThresholds == [responseTime |-> 1500, certExpirationDays |-> 14]

checkInterval == 300000

SecondsPerDay == 86400

\* ----------------------------------------------------------- variables
VARIABLES
  thresholds,   \* config.thresholds
  now,          \* the wall clock, in seconds
  file,         \* the contents of config.metricsFile on disk
  metrics,      \* the in-memory snapshot (let metrics)
  alive,        \* the node process is running
  started,      \* number of runCheck invocations started so far
  pc,           \* pc[c]: where invocation c of runCheck stands
  probes,       \* probes[c][i]: the checkService call of invocation c on services[i]
  serviceResults, \* serviceResults[c]: the local of that name of invocation c
  call,         \* a checkService call on its own (ProbeSpec)
  alertIn,      \* arguments of a generateAlerts call on its own (AlertSpec)
  alertOut      \* its return value

vars == <<thresholds, now, file, metrics, alive, started, pc, probes, serviceResults,
          call, alertIn, alertOut>>

\* ------------------------------------------------- checkService (Probe)
\* A resolve whose last call wins, as an assignment to a shared result would.
resolveLastWins(promise, value) == <<value>>

\* Promise semantics: the first call of resolve settles the promise, a later
\* call changes nothing. A pending promise is <<>>, a settled one <<value>>.
resolve(promise, value) == IF promise = <<>> THEN <<value>> ELSE promise

\* clearTimeout: an armed timer is cancelled, a timer that has fired stays fired.
clearTimeout(timer) == IF timer = "armed" THEN "cleared" ELSE timer

\* A timeout result that reports the time actually waited.
TimeoutResultActualTime(service, th) ==
  [name |-> service.name,
   url |-> service.url,
   status |-> "TIMEOUT",
   responseTime |-> service.timeout,
   error |-> "Request timed out"]

\* The object the timeout callback resolves with.
TimeoutResult(service, th) ==
  [name |-> service.name,
   url |-> service.url,
   status |-> "TIMEOUT",
   responseTime |-> th.responseTime + 1,
   error |-> "Request timed out"]

\* A certificate summary that is given only when the issuer has a name.
CertInfoNeedsIssuer(service, res, t) ==
  IF startsWith(service.url, "https") /\ Has(res, "peer") /\ Has(res.peer, "valid_to")
     /\ Has(res.peer, "issuer") /\ Has(res.peer.issuer, "CN")
  THEN [issuer |-> res.peer.issuer.CN,
        expirationDate |-> Iso(res.peer.valid_to),
        daysToExpiration |-> MathCeilDiv(res.peer.valid_to - t, SecondsPerDay)]
  ELSE NULL

\* certInfo as the response callback computes it. res.peer is what
\* res.socket.getPeerCertificate() returns: an object with valid_to (an
\* instant) and possibly issuer.CN, or the empty object.
CertInfo(service, res, t) ==
  IF startsWith(service.url, "https") /\ Has(res, "peer") /\ Has(res.peer, "valid_to")
  THEN [issuer |-> IF Has(res.peer, "issuer") /\ Has(res.peer.issuer, "CN")
                      /\ res.peer.issuer.CN # ""
                   THEN res.peer.issuer.CN ELSE "Unknown",
        expirationDate |-> Iso(res.peer.valid_to),
        daysToExpiration |-> MathCeilDiv(res.peer.valid_to - t, SecondsPerDay)]
  ELSE NULL

\* A classification against 200 instead of the target's expected code.
ClassifyAgainst200(service, statusCode) ==
  IF statusCode = 200 THEN "HEALTHY" ELSE "UNHEALTHY"

\* HEALTHY or UNHEALTHY, from the response status code.
Classify(service, statusCode) ==
  IF statusCode = service.expectedStatus THEN "HEALTHY" ELSE "UNHEALTHY"

\* The object the response callback resolves with.
ResponseResult(service, res, elapsed, t) ==
  [name |-> service.name,
   url |-> service.url,
   status |-> Classify(service, res.statusCode),
   statusCode |-> res.statusCode,
   responseTime |-> elapsed,
   certificate |-> CertInfo(service, res, t),
   timestamp |-> Iso(t)]

\* The object the 'error' handler resolves with.
ErrorResult(service, message, t) ==
  [name |-> service.name,
   url |-> service.url,
   status |-> "ERROR",
   error |-> message,
   timestamp |-> Iso(t)]

\* State of a checkService call right after the promise executor has run:
\* the timer is armed, the request is on the wire, the promise is pending.
checkService(service) ==
  [service |-> service, timer |-> "armed", req |-> "open", promise |-> <<>>]

\* The setTimeout callback.
onTimeout(p, th) ==
  [p EXCEPT !.timer = "fired",
            !.promise = resolve(@, TimeoutResult(p.service, th))]

\* A response callback that clears the timer and never resolves.
onResponseNoResolve(p, res, elapsed, t) ==
  [p EXCEPT !.timer = clearTimeout(@), !.req = "closed"]

\* The response callback of requester.get.
onResponse(p, res, elapsed, t) ==
  [p EXCEPT !.timer = clearTimeout(@),
            !.req = "closed",
            !.promise = resolve(@, ResponseResult(p.service, res, elapsed, t))]

\* The req.on('error') handler.
onError(p, message, t) ==
  [p EXCEPT !.timer = clearTimeout(@),
            !.req = "closed",
            !.promise = resolve(@, ErrorResult(p.service, message, t))]

settled(p) == p.promise # <<>>

\* ------------------------------------- checkContainers (Container Inspector)
\* const [name, status] = line.split(': '); status is undefined (no key)
\* when the line holds no ': '.
ParseLine(line) ==
  LET parts == split(line, ": ")
  IN IF Len(parts) >= 2 THEN [name |-> parts[1], status |-> parts[2]]
     ELSE [name |-> parts[1]]

\* containers[name] = status on an object kept as the sequence of its
\* entries in insertion order: an existing key keeps its place.
PutEntry(containers, entry) ==
  IF \E j \in 1..Len(containers) : containers[j].name = entry.name
  THEN [j \in 1..Len(containers) |->
          IF containers[j].name = entry.name THEN entry ELSE containers[j]]
  ELSE Append(containers, entry)

RECURSIVE ParseLines(_, _)
ParseLines(lines, containers) ==
  IF lines = <<>> THEN containers
  ELSE ParseLines(Tail(lines), PutEntry(containers, ParseLine(Head(lines))))

\* What checkContainers resolves with, given how exec called back:
\* [error |-> message] or [stdout |-> text].
checkContainers(execResult) ==
  IF Has(execResult, "error")
  THEN [error |-> execResult.error]
  ELSE [containers |-> ParseLines(split(trim(execResult.stdout), "\n"), <<>>)]

\* ----------------------------------------- generateAlerts (Alert Engine)
StatusDetail(result) ==
  IF Has(result, "error") /\ result.error # "" THEN result.error
  ELSE IF Has(result, "statusCode") THEN ToString(result.statusCode)
  ELSE "undefined"

StatusAlert(result, t) ==
  [level |-> "HIGH",
   service |-> result.name,
   message |-> result.name \o " is " \o result.status \o ": " \o StatusDetail(result),
   timestamp |-> Iso(t)]

ResponseTimeAlert(result, th, t) ==
  [level |-> "MEDIUM",
   service |-> result.name,
   message |-> result.name \o " response time (" \o ToString(result.responseTime)
               \o "ms) exceeds threshold (" \o ToString(th.responseTime) \o "ms)",
   timestamp |-> Iso(t)]

CertificateAlert(result, t) ==
  [level |-> "HIGH",
   service |-> result.name,
   message |-> "SSL Certificate for " \o result.name \o " expires in "
               \o ToString(result.certificate.daysToExpiration) \o " days",
   timestamp |-> Iso(t)]

ContainerAlert(entry, t) ==
  [level |-> "HIGH",
   service |-> entry.name,
   message |-> "Container " \o entry.name \o " is not running: " \o entry.status,
   timestamp |-> Iso(t)]

\* Rule 1 without the TIMEOUT case.
StatusRuleNoTimeout(result) == result.status \in {"ERROR", "UNHEALTHY"}

\* Rule 1: the status is one of ERROR, UNHEALTHY, TIMEOUT.
StatusRule(result) == result.status \in {"ERROR", "UNHEALTHY", "TIMEOUT"}

\* Rule 2 with >= in place of >.
ResponseTimeRuleInclusive(result, th) ==
  Has(result, "responseTime") /\ result.responseTime >= th.responseTime

\* Rule 2: result.responseTime > threshold; undefined > n is false.
ResponseTimeRule(result, th) ==
  Has(result, "responseTime") /\ result.responseTime > th.responseTime

\* Rule 3 with <= in place of <.
CertificateRuleInclusive(result, th) ==
  /\ Has(result, "certificate")
  /\ result.certificate # NULL
  /\ result.certificate.daysToExpiration <= th.certExpirationDays

\* Rule 3: result.certificate && daysToExpiration < threshold.
CertificateRule(result, th) ==
  /\ Has(result, "certificate")
  /\ result.certificate # NULL
  /\ result.certificate.daysToExpiration < th.certExpirationDays

\* A pass that looks at the certificate before the status and the time.
ServiceAlertsCertFirst(result, th, t) ==
  (IF CertificateRule(result, th) THEN <<CertificateAlert(result, t)>> ELSE <<>>)
  \o (IF StatusRule(result) THEN <<StatusAlert(result, t)>> ELSE <<>>)
  \o (IF ResponseTimeRule(result, th) THEN <<ResponseTimeAlert(result, th, t)>> ELSE <<>>)

\* The alerts pushed by one pass of the serviceResults.forEach body.
ServiceAlerts(result, th, t) ==
  (IF StatusRule(result) THEN <<StatusAlert(result, t)>> ELSE <<>>)
  \o (IF ResponseTimeRule(result, th) THEN <<ResponseTimeAlert(result, th, t)>> ELSE <<>>)
  \o (IF CertificateRule(result, th) THEN <<CertificateAlert(result, t)>> ELSE <<>>)

RECURSIVE AllServiceAlerts(_, _, _)
AllServiceAlerts(results, th, t) ==
  IF results = <<>> THEN <<>>
  ELSE ServiceAlerts(Head(results), th, t) \o AllServiceAlerts(Tail(results), th, t)

\* A test for the word Exited in place of the test for "Up ".
NotRunningExitedOnly(status) == includes(status, "Exited")

\* !status.includes('Up ')
NotRunning(status) == ~includes(status, "Up ")

RECURSIVE AllContainerAlerts(_, _)
AllContainerAlerts(entries, t) ==
  IF entries = <<>> THEN <<>>
  ELSE (IF NotRunning(Head(entries).status) THEN <<ContainerAlert(Head(entries), t)>> ELSE <<>>)
       \o AllContainerAlerts(Tail(entries), t)

\* generateAlerts returns [value |-> alerts], or [thrown |-> "TypeError"] when
\* status.includes is called on an undefined status.
generateAlerts(results, containerStatus, th, t) ==
  IF Has(containerStatus, "containers")
  THEN IF \E j \in 1..Len(containerStatus.containers) :
            ~Has(containerStatus.containers[j], "status")
       THEN [thrown |-> "TypeError"]
       ELSE [value |-> AllServiceAlerts(results, th, t)
                       \o AllContainerAlerts(containerStatus.containers, t)]
  ELSE [value |-> AllServiceAlerts(results, th, t)]

\* ------------------------------------------------ Metrics Store (JSON file)
\* A file is [exists |-> FALSE] or [exists |-> TRUE, text |-> document]; a
\* document is [json |-> value] (well-formed JSON text denoting value) or
\* [garbage |-> TRUE] (text JSON.parse rejects).
NoFile == [exists |-> FALSE]

FileWith(text) == [exists |-> TRUE, text |-> text]

Garbage == [garbage |-> TRUE]

\* JSON.stringify drops every object member whose value is undefined: in a
\* snapshot these are the container entries without a status.
Serializable(m) ==
  IF m # NULL /\ Has(m, "containerStatus")
  THEN [m EXCEPT !.containerStatus = SelectSeq(@, LAMBDA e : Has(e, "status"))]
  ELSE m

JSONstringify(m) == [json |-> Serializable(m)]

\* JSON.parse: [value |-> v], or [thrown |-> "SyntaxError"].
JSONparse(text) ==
  IF Has(text, "json") THEN [value |-> text.json] ELSE [thrown |-> "SyntaxError"]

\* let metrics = {...}
DefaultMetrics == [lastCheck |-> NULL, services |-> <<>>, alerts |-> <<>>]

\* A load that reads the file and keeps the default snapshot.
LoadMetricsKeepsDefault(f) == DefaultMetrics

\* The try/catch around the load at startup.
LoadMetrics(f) ==
  IF ~f.exists THEN DefaultMetrics
  ELSE LET parsed == JSONparse(f.text)
       IN IF Has(parsed, "thrown") THEN DefaultMetrics ELSE parsed.value

\* obj[key] = value, and the removal of a member.
SetKey(obj, key, value) ==
  [k \in DOMAIN obj \cup {key} |-> IF k = key THEN value ELSE obj[k]]

DelKey(obj, key) == [k \in DOMAIN obj \ {key} |-> obj[k]]

\* A merge that keeps the entry a name already has.
RECURSIVE MergeServicesKeepOld(_, _)
MergeServicesKeepOld(svc, results) ==
  IF results = <<>> THEN svc
  ELSE MergeServicesKeepOld(
         IF Head(results).name \in DOMAIN svc THEN svc
         ELSE SetKey(svc, Head(results).name, Head(results)),
         Tail(results))

\* serviceResults.forEach(result => { metrics.services[result.name] = result })
RECURSIVE MergeServices(_, _)
MergeServices(svc, results) ==
  IF results = <<>> THEN svc
  ELSE MergeServices(SetKey(svc, Head(results).name, Head(results)), Tail(results))

\* metrics.containerStatus = containerStatus.containers; a member set to
\* undefined reads like a missing one and is kept as a missing one.
SetContainerStatus(m, containerStatus) ==
  IF Has(containerStatus, "containers")
  THEN SetKey(m, "containerStatus", containerStatus.containers)
  ELSE DelKey(m, "containerStatus")

\* An assignment that adds the new alerts to the ones the snapshot has.
AppendAlerts(m, currentAlerts) == SetKey(m, "alerts", m.alerts \o currentAlerts)

\* metrics.alerts = currentAlerts
SetAlerts(m, currentAlerts) == SetKey(m, "alerts", currentAlerts)

\* ------------------------------------------------- runCheck (Scheduler)
\* A wait that ends with the first promise to settle.
AnySettled(ps) == \E i \in 1..Len(ps) : settled(ps[i])

\* const serviceResults = await Promise.all(servicePromises)
AllSettled(ps) == \A i \in 1..Len(ps) : settled(ps[i])

\* The values of the settled promises, in the order of the promises.
RECURSIVE serviceResultsOf(_)
serviceResultsOf(ps) ==
  IF ps = <<>> THEN <<>> ELSE Head(ps).promise \o serviceResultsOf(Tail(ps))

\* A tail that writes the file once the services are merged and before the
\* container mapping and the alerts are set.
runCheckTailWritesEarly(m, f, results, containerStatus, th, t) ==
  LET currentAlerts == generateAlerts(results, containerStatus, th, t)
  IN IF Has(currentAlerts, "thrown") \/ m = NULL
     THEN [metrics |-> m, file |-> f, thrown |-> TRUE]
     ELSE LET m1 == SetKey(m, "lastCheck", Iso(t))
          IN IF ~Has(m1, "services") /\ results # <<>>
             THEN [metrics |-> m1, file |-> f, thrown |-> TRUE]
             ELSE LET m2 == [m1 EXCEPT !.services = MergeServices(@, results)]
                      m3 == SetContainerStatus(m2, containerStatus)
                      m4 == SetAlerts(m3, currentAlerts.value)
                  IN [metrics |-> m4, file |-> FileWith(JSONstringify(m2)), thrown |-> FALSE]

\* runCheck from the return of checkContainers to its end, which runs without
\* a suspension point. Gives the snapshot and the file it leaves behind and
\* whether an exception escaped:
\*   generateAlerts throws           -> nothing is changed;
\*   metrics is null                 -> metrics.lastCheck = ... throws;
\*   metrics has no services member  -> lastCheck is set, then the merge throws.
runCheckTail(m, f, results, containerStatus, th, t) ==
  LET currentAlerts == generateAlerts(results, containerStatus, th, t)
  IN IF Has(currentAlerts, "thrown") \/ m = NULL
     THEN [metrics |-> m, file |-> f, thrown |-> TRUE]
     ELSE LET m1 == SetKey(m, "lastCheck", Iso(t))
          IN IF ~Has(m1, "services") /\ results # <<>>
             THEN [metrics |-> m1, file |-> f, thrown |-> TRUE]
             ELSE LET m2 == [m1 EXCEPT !.services = MergeServices(@, results)]
                      m3 == SetContainerStatus(m2, containerStatus)
                      m4 == SetAlerts(m3, currentAlerts.value)
                  IN [metrics |-> m4, file |-> FileWith(JSONstringify(m4)), thrown |-> FALSE]

\* ------------------------------------------------------- environment
\* What the network and the container runtime may answer. Days(n) is n days
\* in seconds.
Days(n) == n * SecondsPerDay

Issuer == [CN |-> "R3"]

\* Responses as the response callback sees them: the status code, the peer
\* certificate of the socket, and Date.now() - startTime.
CycleResponses ==
  { [res |-> [statusCode |-> 200, peer |-> [valid_to |-> Days(30), issuer |-> Issuer]],
     elapsed |-> 120],
    [res |-> [statusCode |-> 404, peer |-> [valid_to |-> Days(5), issuer |-> Issuer]],
     elapsed |-> 1501] }

CycleErrors == {"connect ECONNREFUSED"}

\* How exec('docker ps ...') calls back.
CycleExecResults ==
  { [error |-> "Command failed: docker ps"],
    [stdout |-> ""],
    [stdout |-> "web: Up 2 hours\ndb: Exited (1) 3 minutes ago\n"] }

\* A snapshot written by an earlier run of the program.
OldResult ==
  [name |-> "NASA App", url |-> "https://majortomtogroundcontrol.duckdns.org",
   status |-> "ERROR", error |-> "getaddrinfo ENOTFOUND", timestamp |-> Iso(0 - 300)]

RetiredResult ==
  [name |-> "Retired App", url |-> "https://retired.duckdns.org",
   status |-> "TIMEOUT", responseTime |-> 1501, error |-> "Request timed out"]

OldSnapshot ==
  [lastCheck |-> Iso(0 - 300),
   services |-> SetKey(SetKey(<<>>, "NASA App", OldResult), "Retired App", RetiredResult),
   containerStatus |-> <<[name |-> "cache", status |-> "Exited (0) 2 days ago"]>>,
   alerts |-> <<StatusAlert(OldResult, 0 - 300), StatusAlert(RetiredResult, 0 - 300)>>]

\* What the metrics file may hold when the process starts.
StartFiles ==
  { NoFile,
    FileWith(Garbage),
    FileWith([json |-> NULL]),
    FileWith([json |-> <<>>]),
    FileWith(JSONstringify(OldSnapshot)) }

\* -------------------------------------------------------- the program
Cycles == 1..MaxCycles

InFlight(c) == pc[c] \in {"probing", "inspecting"}

\* const servicePromises = config.services.map(service => checkService(service))
LaunchProbes == [i \in 1..Len(services) |-> checkService(services[i])]

NoCall == <<>>

\* The state once the top level of the script has run: the metrics file is
\* loaded, the first runCheck() has launched its probes and awaits them, the
\* interval timer is set.
Init ==
  /\ thresholds = ConfigThresholds
  /\ now = 0
  /\ file \in StartFiles
  /\ metrics = LoadMetrics(file)
  /\ alive = TRUE
  /\ started = 1
  /\ pc = [c \in Cycles |-> IF c = 1 THEN "probing" ELSE "idle"]
  /\ probes = [c \in Cycles |-> IF c = 1 THEN LaunchProbes ELSE <<>>]
  /\ serviceResults = [c \in Cycles |-> <<>>]
  /\ call = NoCall
  /\ alertIn = <<>>
  /\ alertOut = <<>>

\* After a probe callback of invocation c: when the last promise settles,
\* Promise.all resolves and runCheck goes on to call checkContainers, which
\* starts the docker command; this runs as a microtask right after the
\* callback, before any other event. From then on runCheck holds the results
\* in serviceResults and nothing refers to the calls any more: a callback
\* that runs later finds its promise settled and changes nothing.
AfterProbeEvent(c, ps) ==
  /\ IF AllSettled(ps)
     THEN /\ pc' = [pc EXCEPT ![c] = "inspecting"]
          /\ serviceResults' = [serviceResults EXCEPT ![c] = serviceResultsOf(ps)]
          /\ probes' = [probes EXCEPT ![c] = <<>>]
     ELSE /\ probes' = [probes EXCEPT ![c] = ps]
          /\ UNCHANGED <<pc, serviceResults>>
  /\ UNCHANGED <<thresholds, now, file, metrics, alive, started, call, alertIn, alertOut>>

\* The response of the request of probe i of invocation c arrives. While
\* the timer is armed the measured time is within the timeout.
ResponseArrives(c, i, r) ==
  /\ alive /\ pc[c] = "probing"
  /\ probes[c][i].req = "open"
  /\ probes[c][i].timer = "armed" => r.elapsed <= probes[c][i].service.timeout
  /\ AfterProbeEvent(c, [probes[c] EXCEPT ![i] = onResponse(@, r.res, r.elapsed, now)])

\* The request of probe i of invocation c fails.
ConnectionError(c, i, message) ==
  /\ alive /\ pc[c] = "probing"
  /\ probes[c][i].req = "open"
  /\ AfterProbeEvent(c, [probes[c] EXCEPT ![i] = onError(@, message, now)])

\* The timer of probe i of invocation c fires.
TimeoutFires(c, i) ==
  /\ alive /\ pc[c] = "probing"
  /\ probes[c][i].timer = "armed"
  /\ AfterProbeEvent(c, [probes[c] EXCEPT ![i] = onTimeout(@, thresholds)])

\* exec calls back in invocation c: checkContainers resolves and runCheck
\* runs to its end. An exception that escapes runCheck rejects its promise,
\* which nobody handles: depending on the node version the process dies or
\* only prints a warning. The locals of a finished invocation are gone.
ContainersReturn(c, execResult, dies) ==
  /\ alive /\ pc[c] = "inspecting"
  /\ \E out \in {runCheckTail(metrics, file, serviceResults[c],
                             checkContainers(execResult), thresholds, now)} :
        /\ dies => out.thrown
        /\ metrics' = out.metrics
        /\ file' = out.file
        /\ pc' = [pc EXCEPT ![c] = IF out.thrown THEN "failed" ELSE "done"]
        /\ alive' = ~dies
  /\ serviceResults' = [serviceResults EXCEPT ![c] = <<>>]
  /\ UNCHANGED <<thresholds, now, started, probes, call, alertIn, alertOut>>

\* No armed probe timer outlives the check interval: a probe timer is set
\* for service.timeout ms, the interval timer for checkInterval ms.
ProbeTimersExpired ==
  \A c \in Cycles : \A i \in 1..Len(probes[c]) :
    probes[c][i].timer = "armed" => probes[c][i].service.timeout >= checkInterval

\* The interval timer fires and calls runCheck, which launches its probes;
\* setInterval does not look at earlier invocations.
Tick ==
  /\ alive /\ started < MaxCycles
  /\ ProbeTimersExpired
  /\ now' = now + (checkInterval \div 1000)
  /\ started' = started + 1
  /\ pc' = [pc EXCEPT ![started + 1] = "probing"]
  /\ probes' = [probes EXCEPT ![started + 1] = LaunchProbes]
  /\ UNCHANGED <<thresholds, file, metrics, alive, serviceResults, call, alertIn, alertOut>>

Next ==
  \/ \E c \in Cycles : \E i \in 1..Len(probes[c]) : \E r \in CycleResponses :
       ResponseArrives(c, i, r)
  \/ \E c \in Cycles : \E i \in 1..Len(probes[c]) : \E message \in CycleErrors :
       ConnectionError(c, i, message)
  \/ \E c \in Cycles : \E i \in 1..Len(probes[c]) : TimeoutFires(c, i)
  \/ \E c \in Cycles : \E execResult \in CycleExecResults : \E dies \in BOOLEAN :
       ContainersReturn(c, execResult, dies)
  \/ Tick

Spec == Init /\ [][Next]_vars

\* ---------------------------------------- one checkService call on its own
\* Targets a configuration may name: the first configured one, and a plain
\* HTTP one that expects another status code.
PlainTarget ==
  [name |-> "Whoami", url |-> "http://whoami.localhost/health",
   expectedStatus |-> 204, timeout |-> 2000]

ProbeTargets == {ConfigServices[1], PlainTarget}

ThresholdChoices ==
  { ConfigThresholds,
    [responseTime |-> 0, certExpirationDays |-> 0],
    [responseTime |-> 5000, certExpirationDays |-> 30] }

ProbePeers ==
  { <<>>,
    [valid_to |-> Days(5), issuer |-> Issuer],
    [valid_to |-> Days(13) + 1, issuer |-> Issuer],
    [valid_to |-> Days(30)],
    [valid_to |-> 0 - 1, issuer |-> <<>>] }

ProbeResponses ==
  { [res |-> [statusCode |-> code, peer |-> peer], elapsed |-> elapsed] :
      code \in {200, 204, 404}, peer \in ProbePeers, elapsed \in {120, 1501, 6000} }

ProbeErrors == {"connect ECONNREFUSED", "socket hang up"}

\* The variables of the cycles, at rest.
CyclesAtRest ==
  /\ file = NoFile
  /\ metrics = DefaultMetrics
  /\ alive = TRUE
  /\ started = 0
  /\ pc = [c \in Cycles |-> "idle"]
  /\ probes = [c \in Cycles |-> <<>>]
  /\ serviceResults = [c \in Cycles |-> <<>>]

ProbeInit ==
  /\ thresholds \in ThresholdChoices
  /\ now = 0
  /\ call \in {checkService(target) : target \in ProbeTargets}
  /\ alertIn = <<>>
  /\ alertOut = <<>>
  /\ CyclesAtRest

CallUnchanged ==
  UNCHANGED <<thresholds, now, file, metrics, alive, started, pc, probes, serviceResults,
              alertIn, alertOut>>

\* The response arrives; while the timer is armed the measured time is
\* within the timeout.
CallResponse(r) ==
  /\ call.req = "open"
  /\ call.timer = "armed" => r.elapsed <= call.service.timeout
  /\ call' = onResponse(call, r.res, r.elapsed, now)
  /\ CallUnchanged

\* The request fails.
CallError(message) ==
  /\ call.req = "open"
  /\ call' = onError(call, message, now)
  /\ CallUnchanged

\* The timer fires.
CallTimeout ==
  /\ call.timer = "armed"
  /\ call' = onTimeout(call, thresholds)
  /\ CallUnchanged

ProbeNext ==
  \/ \E r \in ProbeResponses : CallResponse(r)
  \/ \E message \in ProbeErrors : CallError(message)
  \/ CallTimeout

ProbeSpec == ProbeInit /\ [][ProbeNext]_vars

\* An armed timer fires unless it is cleared: the event loop runs due timers.
FairProbeSpec == ProbeSpec /\ WF_vars(CallTimeout)

\* --------------------------------------- one generateAlerts call on its own
AlertResponses ==
  { [res |-> [statusCode |-> code, peer |-> peer], elapsed |-> elapsed] :
      code \in {200, 404},
      peer \in { <<>>, [valid_to |-> Days(5)], [valid_to |-> Days(14)],
                 [valid_to |-> Days(30)], [valid_to |-> 0], [valid_to |-> 0 - Days(2)] },
      elapsed \in {1500, 1501} }

\* The results checkService can resolve with for a target.
ResultsFor(service, th) ==
  {TimeoutResult(service, th)}
  \cup {ErrorResult(service, message, 0) : message \in {"connect ECONNREFUSED", ""}}
  \cup {ResponseResult(service, r.res, r.elapsed, 0) : r \in AlertResponses}

AlertExecResults ==
  { [error |-> "Command failed: docker ps"],
    [stdout |-> ""],
    [stdout |-> "web: Up 2 hours\ndb: Exited (1) 3 minutes ago\n"],
    [stdout |-> "proxy: Up 5 minutes (Paused)\njob: Created\n"] }

AlertThresholds == {ConfigThresholds, [responseTime |-> 1499, certExpirationDays |-> 0]}

AlertInit ==
  /\ thresholds \in AlertThresholds
  /\ now = 0
  /\ call = NoCall
  /\ \E rs \in [1..Len(services) -> UNION {ResultsFor(services[i], thresholds) :
                                            i \in 1..Len(services)}] :
       /\ \A i \in 1..Len(services) : rs[i].name = services[i].name
       /\ \E execResult \in AlertExecResults :
            alertIn = <<[results |-> rs, containerStatus |-> checkContainers(execResult)]>>
  /\ alertOut = <<>>
  /\ CyclesAtRest

\* generateAlerts(serviceResults, containerStatus) is called and returns.
CallGenerateAlerts ==
  /\ alertIn # <<>> /\ alertOut = <<>>
  /\ alertOut' = <<generateAlerts(alertIn[1].results, alertIn[1].containerStatus,
                                  thresholds, now)>>
  /\ UNCHANGED <<thresholds, now, file, metrics, alive, started, pc, probes, serviceResults,
                 call, alertIn>>

AlertNext == CallGenerateAlerts

AlertSpec == AlertInit /\ [][AlertNext]_vars

\* ================================================================ claims
Statuses == {"HEALTHY", "UNHEALTHY", "TIMEOUT", "ERROR"}

\* C1: cycles are strictly sequential: no two runCheck invocations are ever
\* in flight at the same time, however long a cycle takes.
C1_CyclesSequential == Cardinality({c \in Cycles : InFlight(c)}) <= 1

\* C2: every checkService call is eventually resolved, whatever the order of
\* response, connection error and timeout (and when neither a response nor
\* an error ever comes), with exactly one result, whose status is one of
\* HEALTHY, UNHEALTHY, TIMEOUT, ERROR.
C2_ProbeAlwaysResolves ==
  /\ <>settled(call)
  /\ [](/\ Len(call.promise) <= 1
        /\ settled(call) => call.promise[1].status \in Statuses)

\* The target never answers and never fails: the timeout alone resolves.
C2_Witness == settled(call) /\ call.timer = "fired" /\ call.req = "open"

\* C3: the first of timeout, response and error decides the result and the
\* result is final: a settled result never changes, a result is TIMEOUT
\* exactly when the timer fired while the promise was pending, and after a
\* response or an error came first the timer can no longer fire.
C3_FirstEventWins ==
  [][/\ settled(call) => call'.promise = call.promise
     /\ (~settled(call) /\ settled(call')) =>
          /\ (call'.promise[1].status = "TIMEOUT") <=>
               (call.timer = "armed" /\ call'.timer = "fired")
          /\ call'.promise[1].status # "TIMEOUT" => call'.timer = "cleared"
     /\ call.timer = "cleared" => call'.timer = "cleared"]_vars

\* The timeout fired first and the response arrived afterwards.
C3_Witness ==
  /\ settled(call) /\ call.promise[1].status = "TIMEOUT"
  /\ call.timer = "fired" /\ call.req = "closed"

ResultsComplete(rs) ==
  /\ Len(rs) = Len(services)
  /\ \A i \in 1..Len(services) : rs[i].name = services[i].name /\ rs[i].status \in Statuses

\* C4: a cycle leaves the wait for its probes only with a result of every
\* probe it launched, and the snapshot and the file are changed only by a
\* cycle that holds all its results.
C4_FanInBarrier ==
  [][\A c \in Cycles :
       /\ (pc[c] = "probing" /\ pc'[c] # "probing") =>
            (pc'[c] = "inspecting" /\ ResultsComplete(serviceResults'[c]))
       /\ (pc'[c] \in {"done", "failed"} /\ pc[c] # pc'[c]) =>
            (pc[c] = "inspecting" /\ ResultsComplete(serviceResults[c]))
       /\ (metrics' # metrics \/ file' # file) =>
            \E d \in Cycles : /\ pc[d] = "inspecting" /\ pc'[d] # "inspecting"
                              /\ ResultsComplete(serviceResults[d])]_vars

\* The second probe answered while the first one ran into its timeout.
C4_Witness ==
  \E c \in Cycles :
    /\ pc[c] = "inspecting"
    /\ serviceResults[c][1].status = "TIMEOUT"
    /\ serviceResults[c][2].status = "HEALTHY"

SnapshotUsable(m) == m # NULL /\ Has(m, "services")

\* C5: whatever the probes and the container runtime command give, no
\* exception escapes runCheck (the snapshot being one that the cycle can
\* write to).
C5_ChecksNeverStopLoop ==
  \A c \in Cycles : pc[c] = "failed" => ~SnapshotUsable(metrics)

\* C6: a response that comes first gives HEALTHY exactly when its status code
\* is the target's expectedStatus and UNHEALTHY otherwise, and the result
\* carries the code; an error that comes first gives ERROR with the message
\* and no status code.
C6_StatusClassification ==
  [][/\ \A r \in ProbeResponses :
          (~settled(call) /\ CallResponse(r)) =>
             LET result == call'.promise[1]
             IN /\ result.status = "HEALTHY" <=>
                     r.res.statusCode = call.service.expectedStatus
                /\ result.status = "UNHEALTHY" <=>
                     r.res.statusCode # call.service.expectedStatus
                /\ result.statusCode = r.res.statusCode
     /\ \A message \in ProbeErrors :
          (~settled(call) /\ CallError(message)) =>
             LET result == call'.promise[1]
             IN /\ result.status = "ERROR"
                /\ result.error = message
                /\ ~Has(result, "statusCode")]_vars

\* A 200 from a target that expects 204.
C6_Witness ==
  /\ settled(call)
  /\ call.service.expectedStatus = 204
  /\ call.promise[1].status = "UNHEALTHY"
  /\ call.promise[1].statusCode = 200

Count(alerts, P(_)) == Cardinality({k \in 1..Len(alerts) : P(alerts[k])})

IsResponseTimeAlertFor(a, name) ==
  a.level = "MEDIUM" /\ a.service = name

IsStatusAlertFor(a, name) ==
  a.level = "HIGH" /\ a.service = name /\ startsWith(a.message, name \o " is ")

IsCertificateAlertFor(a, name) ==
  /\ a.level = "HIGH" /\ a.service = name
  /\ startsWith(a.message, "SSL Certificate for " \o name)

\* C7: once the timer has fired the result is TIMEOUT with responseTime equal
\* to the response-time threshold plus 1, and generateAlerts gives for it the
\* MEDIUM response-time alert besides the HIGH status alert, whatever the
\* threshold.
C7_TimeoutTripsResponseTimeRule ==
  call.timer = "fired" =>
    /\ settled(call)
    /\ call.promise[1].status = "TIMEOUT"
    /\ call.promise[1].responseTime = thresholds.responseTime + 1
    /\ LET out == generateAlerts(call.promise, [error |-> "Command failed"], thresholds, now)
           name == call.service.name
       IN /\ Has(out, "value")
          /\ Count(out.value, LAMBDA a : IsResponseTimeAlertFor(a, name)) = 1
          /\ Count(out.value, LAMBDA a : IsStatusAlertFor(a, name)) = 1

\* A timeout under a threshold that is not below the probe's own timeout.
C7_Witness ==
  /\ call.timer = "fired"
  /\ thresholds.responseTime >= call.service.timeout

\* The generateAlerts call has returned a list.
Returned == alertOut # <<>> /\ Has(alertOut[1], "value")

\* C8: for every probe result generateAlerts gives exactly one HIGH status
\* alert naming the service when the status is ERROR, UNHEALTHY or TIMEOUT
\* and none when it is HEALTHY; the message ends with the error text when
\* there is one and with the HTTP status code otherwise.
C8_StatusAlertRule ==
  Returned =>
    \A i \in 1..Len(alertIn[1].results) :
      LET r == alertIn[1].results[i]
          alerts == alertOut[1].value
          hasError == Has(r, "error") /\ r.error # ""
      IN /\ Count(alerts, LAMBDA a : IsStatusAlertFor(a, r.name))
              = IF r.status = "HEALTHY" THEN 0 ELSE 1
         /\ \A k \in 1..Len(alerts) :
              IsStatusAlertFor(alerts[k], r.name) =>
                 /\ hasError =>
                      alerts[k].message = r.name \o " is " \o r.status \o ": " \o r.error
                 /\ (~hasError /\ Has(r, "statusCode")) =>
                      alerts[k].message
                        = r.name \o " is " \o r.status \o ": " \o ToString(r.statusCode)

\* A 404 from a target that expects 200: one HIGH alert that mentions 404;
\* the other target answered 200 and has no status alert.
C8_Witness ==
  /\ Returned
  /\ alertIn[1].results[1].status = "UNHEALTHY"
  /\ alertIn[1].results[1].statusCode = 404
  /\ \E k \in 1..Len(alertOut[1].value) :
       /\ IsStatusAlertFor(alertOut[1].value[k], services[1].name)
       /\ includes(alertOut[1].value[k].message, "404")
  /\ alertIn[1].results[2].status = "HEALTHY"
  /\ alertIn[1].results[2].statusCode = 200

\* C9: for every probe result generateAlerts gives a MEDIUM alert exactly
\* when the result has a responseTime strictly above the threshold, whatever
\* its status.
C9_ResponseTimeAlertRule ==
  Returned =>
    \A i \in 1..Len(alertIn[1].results) :
      LET r == alertIn[1].results[i]
      IN Count(alertOut[1].value, LAMBDA a : IsResponseTimeAlertFor(a, r.name))
           = IF Has(r, "responseTime") /\ r.responseTime > thresholds.responseTime
             THEN 1 ELSE 0

\* A HEALTHY but slow service with only the MEDIUM alert, beside a service
\* exactly at the threshold with none.
C9_Witness ==
  /\ Returned
  /\ alertIn[1].results[1].status = "HEALTHY"
  /\ alertIn[1].results[1].responseTime = thresholds.responseTime + 1
  /\ Count(alertOut[1].value, LAMBDA a : a.service = services[1].name) = 1
  /\ Count(alertOut[1].value, LAMBDA a : IsResponseTimeAlertFor(a, services[1].name)) = 1
  /\ alertIn[1].results[2].status = "HEALTHY"
  /\ alertIn[1].results[2].responseTime = thresholds.responseTime
  /\ Count(alertOut[1].value, LAMBDA a : IsResponseTimeAlertFor(a, services[2].name)) = 0

\* C10: for every probe result generateAlerts gives exactly one HIGH
\* certificate alert, stating the day count, when certificate info is present
\* and daysToExpiration is strictly below the certificate threshold (zero and
\* negative counts included), and none otherwise.
C10_CertificateAlertRule ==
  Returned =>
    \A i \in 1..Len(alertIn[1].results) :
      LET r == alertIn[1].results[i]
          alerts == alertOut[1].value
          present == Has(r, "certificate") /\ r.certificate # NULL
      IN /\ Count(alerts, LAMBDA a : IsCertificateAlertFor(a, r.name))
              = IF present /\ r.certificate.daysToExpiration
                               < thresholds.certExpirationDays
                THEN 1 ELSE 0
         /\ \A k \in 1..Len(alerts) :
              IsCertificateAlertFor(alerts[k], r.name) =>
                 alerts[k].message
                   = "SSL Certificate for " \o r.name \o " expires in "
                     \o ToString(r.certificate.daysToExpiration) \o " days"

\* Threshold 14: 5 days left gives the alert, 14 days left gives none.
C10_Witness ==
  /\ Returned
  /\ thresholds.certExpirationDays = 14
  /\ alertIn[1].results[1].status = "HEALTHY"
  /\ alertIn[1].results[1].certificate # NULL
  /\ alertIn[1].results[1].certificate.daysToExpiration = 5
  /\ \E k \in 1..Len(alertOut[1].value) :
       /\ IsCertificateAlertFor(alertOut[1].value[k], services[1].name)
       /\ includes(alertOut[1].value[k].message, "expires in 5 days")
  /\ alertIn[1].results[2].status = "HEALTHY"
  /\ alertIn[1].results[2].certificate # NULL
  /\ alertIn[1].results[2].certificate.daysToExpiration = 14
  /\ Count(alertOut[1].value, LAMBDA a : IsCertificateAlertFor(a, services[2].name)) = 0


IsContainerAlertFor(a, name) ==
  /\ a.level = "HIGH" /\ a.service = name
  /\ startsWith(a.message, "Container " \o name \o " is not running: ")

ContainsUp(status) == \E k \in 1..(Len(status) - 2) : SubSeq(status, k, k + 2) = "Up "

\* C11: when the container mapping is present generateAlerts gives exactly
\* one HIGH alert for each container whose status does not contain "Up " and
\* none for a container whose status contains it.
C11_ContainerAlertRule ==
  (Returned /\ Has(alertIn[1].containerStatus, "containers")) =>
    \A j \in 1..Len(alertIn[1].containerStatus.containers) :
      LET entry == alertIn[1].containerStatus.containers[j]
      IN Count(alertOut[1].value, LAMBDA a : IsContainerAlertFor(a, entry.name))
           = IF ContainsUp(entry.status) THEN 0 ELSE 1

\* {"web": "Up 2 hours", "db": "Exited (1) 3 minutes ago"}: one container
\* alert, for db.
C11_Witness ==
  /\ Returned
  /\ alertIn[1].containerStatus
       = [containers |-> <<[name |-> "web", status |-> "Up 2 hours"],
                           [name |-> "db", status |-> "Exited (1) 3 minutes ago"]>>]
  /\ Count(alertOut[1].value, LAMBDA a : startsWith(a.message, "Container ")) = 1
  /\ Count(alertOut[1].value, LAMBDA a : IsContainerAlertFor(a, "db")) = 1


IsContainerAlert(a) == startsWith(a.message, "Container ")

\* The step in which exec calls back with a failure in invocation c.
InspectionFails(c) ==
  \E execResult \in CycleExecResults : \E dies \in BOOLEAN :
    Has(execResult, "error") /\ ContainersReturn(c, execResult, dies)

\* C12: a cycle whose container inspection fails completes and persists:
\* checkContainers gives an error string and no mapping, the snapshot that
\* is written holds no container alert and every service alert of the cycle.
C12_InspectionFailureRecovered ==
  [][\A c \in Cycles : InspectionFails(c) =>
       /\ \A execResult \in CycleExecResults : Has(execResult, "error") =>
            /\ Has(checkContainers(execResult), "error")
            /\ ~Has(checkContainers(execResult), "containers")
       /\ pc'[c] = "done"
       /\ file' = FileWith(JSONstringify(metrics'))
       /\ metrics'.alerts = AllServiceAlerts(serviceResults[c], thresholds, now)
       /\ Count(metrics'.alerts, IsContainerAlert) = 0]_vars


\* The step in which invocation c completes: it has merged its results and
\* written the file.
Completes(c) == pc[c] = "inspecting" /\ pc'[c] = "done"

\* C13: after a completed cycle the service mapping of the snapshot, in
\* memory and in the file, holds under every configured name the result that
\* cycle's probe of that target produced, whatever was loaded at startup.
C13_ServiceEntryPerTarget ==
  [][\A c \in Cycles : Completes(c) =>
       \A i \in 1..Len(services) :
         /\ Has(metrics'.services, services[i].name)
         /\ metrics'.services[services[i].name] = serviceResults[c][i]
         /\ serviceResults[c][i].name = services[i].name
         /\ file'.text.json.services[services[i].name] = serviceResults[c][i]]_vars

\* A completed cycle over a loaded snapshot that held an older result under
\* a configured name: the older result is replaced.
C13_Witness ==
  /\ \E c \in Cycles : pc[c] = "done"
  /\ Has(metrics.services, "Retired App")
  /\ \A i \in 1..Len(services) :
       /\ Has(metrics.services, services[i].name)
       /\ metrics.services[services[i].name] # OldResult


\* A file that holds a snapshot object.
IsSnapshotFile(f) ==
  /\ f.exists
  /\ Has(f.text, "json")
  /\ f.text.json # NULL
  /\ Has(f.text.json, "services")

\* C14: when the metrics file is missing or does not hold a snapshot object
\* (unparseable, null, or an object without a services mapping) the snapshot
\* after startup is the empty snapshot, and the first cycle completes and
\* persists.
C14_CorruptFileGivesEmptySnapshot ==
  [][/\ (started = 1 /\ pc[1] = "probing" /\ ~IsSnapshotFile(file))
          => metrics = DefaultMetrics
     /\ (pc[1] = "inspecting" /\ pc'[1] # "inspecting" /\ ~IsSnapshotFile(file)
         /\ \E execResult \in CycleExecResults : \E dies \in BOOLEAN :
              /\ Has(checkContainers(execResult), "error")
              /\ ContainersReturn(1, execResult, dies))
          => (pc'[1] = "done" /\ file' = FileWith(JSONstringify(metrics')))]_vars


\* C15: loading the metrics file right after a cycle has saved it gives the
\* snapshot that was saved: same lastCheck, same service mapping, same
\* container mapping or none at all, same alerts.
C15_SaveLoadRoundTrip ==
  [][\A c \in Cycles : Completes(c) =>
       LET loaded == LoadMetrics(file')
       IN /\ loaded = metrics'
          /\ loaded.lastCheck = Iso(now)
          /\ Has(loaded, "containerStatus") = Has(metrics', "containerStatus")]_vars

\* A snapshot saved after a failed container inspection, over a loaded
\* snapshot that had a container mapping, survives the round trip.
C15_Witness ==
  /\ \E c \in Cycles : pc[c] = "done"
  /\ Has(metrics.services, "Retired App")
  /\ ~Has(metrics, "containerStatus")
  /\ metrics.alerts # <<>>
  /\ LoadMetrics(file) = metrics


\* What checkContainers gave the invocation that wrote the snapshot m.
InspectionOf(m) ==
  IF Has(m, "containerStatus") THEN [containers |-> m.containerStatus]
  ELSE [error |-> "Command failed: docker ps"]

\* C16: after a completed cycle the alert list of the snapshot is the list
\* generateAlerts returned in that cycle: no alert of an earlier cycle or of
\* the loaded file remains, and the list is empty when none was raised.
C16_OnlyLatestAlerts ==
  [][\A c \in Cycles : Completes(c) =>
       /\ metrics'.alerts
            = generateAlerts(serviceResults[c], InspectionOf(metrics'), thresholds, now).value
       /\ file'.text.json.alerts = metrics'.alerts
       /\ \A k \in 1..Len(metrics'.alerts) :
            /\ metrics'.alerts[k].timestamp = Iso(now)
            /\ metrics'.alerts[k].service # "Retired App"]_vars

\* A cycle that raised no alert, over a loaded snapshot that held alerts.
C16_Witness ==
  /\ \E c \in Cycles : pc[c] = "done"
  /\ Has(metrics.services, "Retired App")
  /\ metrics.alerts = <<>>
  /\ file.text.json.alerts = <<>>


\* C17: the result of a checkService call has a timestamp field, whichever
\* of HEALTHY, UNHEALTHY, TIMEOUT and ERROR its status is.
C17_ResultHasTimestamp ==
  settled(call) =>
    /\ call.promise[1].status \in Statuses
    /\ Has(call.promise[1], "timestamp")

\* The result has certificate information.
HasCertificate(result) == Has(result, "certificate") /\ result.certificate # NULL

\* C18: the result of a response has certificate information exactly when
\* the target URL is https and the connection gave a peer certificate with
\* an expiry; a TIMEOUT or ERROR result has none, and neither has any result
\* for a target that is not https.
C18_CertificateInfoPresence ==
  [][/\ \A r \in ProbeResponses :
          (~settled(call) /\ CallResponse(r)) =>
             (HasCertificate(call'.promise[1]) <=>
                /\ SubSeq(call.service.url, 1, 5) = "https"
                /\ Has(r.res.peer, "valid_to"))
     /\ (settled(call') /\ call'.promise[1].status \in {"TIMEOUT", "ERROR"})
          => ~HasCertificate(call'.promise[1])
     /\ (settled(call') /\ SubSeq(call'.service.url, 1, 5) # "https")
          => ~HasCertificate(call'.promise[1])]_vars

\* A response over https whose peer certificate has an expiry and no issuer
\* name: the result has certificate information.
C18_Witness ==
  /\ settled(call)
  /\ call.promise[1].status \in {"HEALTHY", "UNHEALTHY"}
  /\ HasCertificate(call.promise[1])
  /\ call.promise[1].certificate.issuer = "Unknown"


\* C19: the first cycle is started at process start, and nothing that
\* happens inside the program stops the interval timer that starts the
\* later ones.
C19_TimerNeverStops ==
  /\ started >= 1
  /\ (now = 0 /\ started = 1) => pc[1] # "idle"
  /\ alive


\* Position of the service an alert names in the configured order.
ServiceIndex(a) == CHOOSE i \in 1..Len(services) : services[i].name = a.service

\* 1 for a status alert, 2 for a response-time alert, 3 for a certificate alert.
RuleIndex(a) ==
  IF IsStatusAlertFor(a, a.service) THEN 1
  ELSE IF IsResponseTimeAlertFor(a, a.service) THEN 2 ELSE 3

\* Alert a may stand before alert b in the list of one cycle.
MayPrecede(a, b) ==
  IF IsContainerAlert(a) THEN IsContainerAlert(b)
  ELSE \/ IsContainerAlert(b)
       \/ ServiceIndex(a) < ServiceIndex(b)
       \/ ServiceIndex(a) = ServiceIndex(b) /\ RuleIndex(a) < RuleIndex(b)

\* C20: the alert list of a cycle holds the service alerts in the configured
\* order of the services, in whatever order the probes settled, for one
\* service the status alert, then the response-time alert, then the
\* certificate alert, and every container alert after every service alert.
C20_AlertOrder ==
  [][\A c \in Cycles : Completes(c) =>
       \A k, l \in 1..Len(metrics'.alerts) :
         k < l => MayPrecede(metrics'.alerts[k], metrics'.alerts[l])]_vars

\* A cycle in which the first service raised all three alerts, the second
\* one raised some, and a container alert was raised.
C20_Witness ==
  /\ \E c \in Cycles : pc[c] = "done"
  /\ Len(metrics.alerts) >= 5
  /\ IsStatusAlertFor(metrics.alerts[1], services[1].name)
  /\ IsResponseTimeAlertFor(metrics.alerts[2], services[1].name)
  /\ IsCertificateAlertFor(metrics.alerts[3], services[1].name)
  /\ metrics.alerts[4].service = services[2].name
  /\ IsContainerAlert(metrics.alerts[Len(metrics.alerts)])


\* The runtime command succeeded and listed no container.
NothingListed == [stdout |-> ""]

\* C21: when the runtime command succeeds and lists no container,
\* checkContainers gives a mapping that is present and has no entry (none
\* with an empty name, none without a status), and generateAlerts returns
\* with no container alert.
C21_NoContainerGivesEmptyMapping ==
  (alertIn # <<>> /\ alertIn[1].containerStatus = checkContainers(NothingListed)) =>
    /\ Has(alertIn[1].containerStatus, "containers")
    /\ alertIn[1].containerStatus.containers = <<>>
    /\ alertOut # <<>> =>
         /\ Returned
         /\ Count(alertOut[1].value, IsContainerAlert) = 0


\* The snapshot s holds what one invocation with the probe results rs
\* produced at instant t under thresholds th: its result under every
\* configured name, and the alerts generateAlerts gives for those results
\* and the container mapping of s.
FromOneInvocation(s, rs, th, t) ==
  /\ s.lastCheck = Iso(t)
  /\ \A i \in 1..Len(services) : s.services[services[i].name] = rs[i]
  /\ s.alerts = generateAlerts(rs, InspectionOf(s), th, t).value

\* C22: every snapshot written to the metrics file holds the service
\* entries, the container mapping and the alerts of one runCheck
\* invocation, however the invocations interleave: the file changes only in
\* the step in which an invocation completes, and what it then holds is
\* that invocation's.
C22_WrittenSnapshotFromOneCycle ==
  [][/\ file' # file => \E c \in Cycles : Completes(c)
     /\ \A c \in Cycles : Completes(c) =>
          /\ file'.exists /\ Has(file'.text, "json")
          /\ FromOneInvocation(file'.text.json, serviceResults[c], thresholds, now)]_vars

\* The second invocation has written the file while the first one, whose
\* results differ, still awaits the container inspection.
C22_Witness ==
  /\ MaxCycles >= 2
  /\ pc[1] = "inspecting" /\ pc[2] = "done"
  /\ \E i \in 1..Len(services) :
       file.text.json.services[services[i].name] # serviceResults[1][i]
  /\ FromOneInvocation(file.text.json, [i \in 1..Len(services) |->
                          file.text.json.services[services[i].name]], thresholds, now)

====
